---- MODULE Spec2Model ----
(***************************************************************************)
(* rep2ib: one replication run of main.py.  A run loads the configuration  *)
(* document, walks the configured tables in order, streams each table's    *)
(* rows in batches into the Iceberg destination according to the target    *)
(* access mode, and rewrites the configuration document at source exit.    *)
(*                                                                         *)
(* The run is one sequential process; pc is its position.  The state kept  *)
(* per table (trace, destination table, dump artifact, stream) is that of  *)
(* the table the loop is at and is set afresh when the loop reaches the    *)
(* next table.                                                             *)
(***************************************************************************)
EXTENDS Integers, Sequences, FiniteSets, TLC

\* ------------------------------------------------------------------ bounds
NumTables == 2      \* table specs in the configuration document
MaxRows == 3        \* matching rows a source table may hold
BatchSize == 1      \* the spec's batch_size of every table
MaxInserts == 1     \* rows a concurrent writer inserts during one pre-scan/stream window

Tables == 1..NumTables

\* ------------------------------------------------------- values and JSON
\* A Python value of a cursor: t is its Python type, v its rank among the
\* values of the column the run meets (0: the value of the document as
\* loaded; 1: the greatest value of the rows matching at the start of the
\* table; each later insert is greater by one).  NoCursor: the table spec
\* has no "cursor" key.
NoCursor == [t |-> "none", v |-> 0]
PreRunCursors == {NoCursor, [t |-> "int", v |-> 0], [t |-> "str", v |-> 0]}

\* What max(cursor field) returns through psycopg2, by the config value's
\* type: an integer column (or xid) gives int; a quoted value is compared
\* with a text column (str) or a timestamp column (datetime).
ColumnTypes(c) ==
    IF c.t = "int" THEN {"int"} ELSE {"str", "datetime"}

\* json.dumps of one value: int -> number, str -> string; a datetime is not
\* JSON serializable (TypeError).
JsonSerializable(c) == c.t \in {"none", "int", "str"}

JsonEncode(c) ==
    CASE c.t = "int"  -> [j |-> "number", v |-> c.v]
      [] c.t = "str"  -> [j |-> "string", v |-> c.v]
      [] c.t = "none" -> [j |-> "nokey", v |-> 0]

\* json.load of one value: number -> int, string -> str.
JsonDecode(x) ==
    CASE x.j = "number" -> [t |-> "int", v |-> x.v]
      [] x.j = "string" -> [t |-> "str", v |-> x.v]
      [] OTHER          -> NoCursor

\* json.dumps(self.config) raises TypeError unless every value is
\* serializable.
CanDump(cfg) == \A i \in DOMAIN cfg : JsonSerializable(cfg[i])

\* json.dumps(self.config): the document text, one entry per table spec in
\* order.
JsonDumps(cfg) == [i \in DOMAIN cfg |-> JsonEncode(cfg[i])]

\* The file holds a complete document iff it holds every table's entry; a
\* truncated file is <<>>, a partially written one a proper prefix.
ValidDocument(f) == Len(f) = NumTables

\* json.load of the file (Source.__init__ of the next run).
JsonLoads(f) == [i \in DOMAIN f |-> JsonDecode(f[i])]

\* ------------------------------------------------------------ access mode
AccessModes == {"READONLY", "APPEND", "UPSERT", "OVERWRITE", "REPLACE"}
\* target.access_mode of a spec; "ABSENT": the key is missing.
SpecModes == AccessModes \cup {"ABSENT"}

DefaultAccessModeAppend == "APPEND"

\* The access mode RDBTable.target gives when the key is missing.
DefaultAccessMode == "OVERWRITE"

\* RDBTable.target: the access mode of the target table.
TargetAccessMode(specMode) ==
    IF specMode \in AccessModes THEN specMode ELSE DefaultAccessMode

VARIABLES
    config,         \* self.config["tables"][i]["cursor"]["value"], in memory
    preRun,         \* the cursor values of the document as loaded
    prescanTarget,  \* per table: target_value of the pre-scan whose stream was exhausted
    file,           \* the configuration file on disk
    pc,             \* position of main
    cur,            \* index of the table the loop is at (0: none yet)
    mode,           \* target_table.access_mode of the current table ("unset": no table)
    specMode,       \* spec["target"]["access_mode"] of the current table
    overwrite,      \* main's flag
    upsert,         \* main's flag
    info,           \* table_info of get_batches
    srcCount,       \* rows of the source table matching the predicate
    srcMax,         \* rank of the greatest cursor value among them
    stream,         \* rows left in the server-side cursor
    batchNo,        \* batches yielded so far
    streamEnd,      \* how get_batches ended for the current table
    destExists,     \* the destination table exists in the catalog
    destContent,    \* its content: batch numbers, 0 for rows of before the run
    dumpFile,       \* debug/<table>_error_sample.json: the batches it holds
    trace,          \* calls made for the current table, in order
    raised,         \* the exception that left the table loop
    exitRaised,     \* the exception PGSource.__exit__ raised
    extracted,      \* a pre-scan or a destination call has been made in this run
    arg,            \* unit specifications: the input of the function examined
    ret             \* unit specifications: what it has returned or yielded so far

vars == <<config, preRun, prescanTarget, file, pc, cur, mode, specMode,
          overwrite, upsert, info, srcCount, srcMax, stream, batchNo,
          streamEnd, destExists, destContent, dumpFile, trace, raised,
          exitRaised, extracted, arg, ret>>

\* The variables of a run of main.
runVars == <<config, preRun, prescanTarget, file, pc, cur, mode, specMode,
             overwrite, upsert, info, srcCount, srcMax, stream, batchNo,
             streamEnd, destExists, destContent, dumpFile, trace, raised,
             exitRaised, extracted>>

NoInfo == [size |-> -1, target |-> NoCursor]

Event(op, b, sch, res) == [op |-> op, b |-> b, sch |-> sch, res |-> res]


\* ------------------------------------------------------------ destination
\* d is the destination table's state: [exists, content, dump].  env gives
\* the outcome of each catalog or file operation a call may make: "ok" or
\* "error" (an exception other than the one the code expects).
Outcome == {"ok", "error"}
\* An operation that is not reached has no outcome to choose: it is "ok".
WriteEnv ==
    {e \in [load : Outcome, create : Outcome, load2 : Outcome,
            write : Outcome, dump : Outcome] :
        /\ e.load = "error" => e.create = "ok"
        /\ (e.load = "error" \/ e.create = "error") => e.load2 = "ok"
        /\ (e.load = "error" \/ e.create = "error" \/ e.load2 = "error")
              => e.write = "ok"
        /\ e.write = "ok" => e.dump = "ok"}
RecreateEnv == [drop : Outcome, create : Outcome]

Result(d, ev, exc) == [d |-> d, ev |-> ev, raised |-> exc]

\* IBSession.create_table: TableAlreadyExistsError is logged, any other
\* exception propagates.
CreateTable(d, sch, create) ==
    IF create = "error"
    THEN Result(d, <<Event("create", 0, sch, "error")>>, TRUE)
    ELSE IF d.exists
    THEN Result(d, <<Event("create", 0, sch, "exists")>>, FALSE)
    ELSE Result([d EXCEPT !.exists = TRUE, !.content = <<>>],
                <<Event("create", 0, sch, "ok")>>, FALSE)

RecreateTableNoDrop(d, sch, env) ==
    LET c == CreateTable(d, sch, env.create)
    IN Result(c.d, c.ev, c.raised)

\* IBSession.recreate_table: drop, NoSuchTableError tolerated, and in the
\* finally clause create_table with the schema given.
RecreateTable(d, sch, env) ==
    LET dropRes == IF env.drop = "error" THEN "error"
                   ELSE IF d.exists THEN "ok" ELSE "nosuch"
        d1 == IF dropRes = "ok"
              THEN [d EXCEPT !.exists = FALSE, !.content = <<>>] ELSE d
        c == CreateTable(d1, sch, env.create)
    IN Result(c.d, <<Event("drop", 0, "none", dropRes)>> \o c.ev,
              dropRes = "error" \/ c.raised)

\* IBSession.dump_table: the artifact is opened with mode 'w' and holds the
\* rows of this batch; a failure to open it is logged only.
DumpTable(d, b, dump) ==
    IF dump = "ok"
    THEN Result([d EXCEPT !.dump = <<b>>], <<Event("dump", b, "none", "ok")>>, FALSE)
    ELSE Result(d, <<Event("dump", b, "none", "error")>>, FALSE)

\* What ib_table.append / ib_table.overwrite commit.
Commit(op, content, b) ==
    IF op = "overwrite" THEN <<b>> ELSE Append(content, b)

WriteTableNoDump(op, d, b, env) ==
    LET call(res) == Event(op, b, "none", res)
        c  == CreateTable(d, "batch", env.create)
        d1 == IF d.exists THEN d ELSE c.d
        ev1 == IF d.exists THEN <<>> ELSE c.ev
        loaded == /\ env.load = "ok"
                  /\ d.exists \/ (~c.raised /\ env.load2 = "ok")
    IN IF ~loaded
       THEN Result(IF env.load = "ok" THEN d1 ELSE d,
                   <<call("raised")>> \o (IF env.load = "ok" THEN ev1 ELSE <<>>),
                   TRUE)
       ELSE IF env.write = "ok"
       THEN Result([d1 EXCEPT !.content = Commit(op, d1.content, b)],
                   <<call("ok")>> \o ev1, FALSE)
       ELSE Result(d1, <<call("failed")>> \o ev1, FALSE)

\* The body IBSession.append_table and IBSession.overwrite_table share (op
\* names which): load the table, creating it from the batch's schema when it does not
\* exist; then write; a failing write dumps the batch.  An exception of
\* load_table or create_table propagates to the caller.
WriteTable(op, d, b, env) ==
    LET call(res) == Event(op, b, "none", res)
        c  == CreateTable(d, "batch", env.create)
        d1 == IF d.exists THEN d ELSE c.d
        ev1 == IF d.exists THEN <<>> ELSE c.ev
        loaded == /\ env.load = "ok"
                  /\ d.exists \/ (~c.raised /\ env.load2 = "ok")
        dm == DumpTable(d1, b, env.dump)
    IN IF ~loaded
       THEN Result(IF env.load = "ok" THEN d1 ELSE d,
                   <<call("raised")>> \o (IF env.load = "ok" THEN ev1 ELSE <<>>),
                   TRUE)
       ELSE IF env.write = "ok"
       THEN Result([d1 EXCEPT !.content = Commit(op, d1.content, b)],
                   <<call("ok")>> \o ev1, FALSE)
       ELSE Result(dm.d, <<call("failed")>> \o ev1 \o dm.ev, FALSE)

\* IBSession.append_table.
AppendTable(d, b, env) == WriteTable("append", d, b, env)

\* IBSession.overwrite_table.
OverwriteTable(d, b, env) == WriteTable("overwrite", d, b, env)

\* IBSession.upsert_table: logs and does nothing.
UpsertTable(d, b) == Result(d, <<Event("upsert", b, "none", "ok")>>, FALSE)


\* ------------------------------------------------------------------ main
\* RDBTable.is_incremental: the spec has a "cursor" key.
IsIncremental(c) == c.t # "none"

Min(a, b) == IF a < b THEN a ELSE b

RouteSwapped(ow, up) ==
    IF ow THEN "overwrite" ELSE IF up THEN "append" ELSE "upsert"

\* main.py 61-69: the call a batch is routed to.
Route(ow, up) ==
    IF ow THEN "overwrite" ELSE IF up THEN "upsert" ELSE "append"

\* main.py 62-64: overwrite = False is reached only when overwrite_table
\* returned; an exception skips it.
OverwriteAfter(ow, op, exc) ==
    IF op = "overwrite" /\ ~exc THEN FALSE ELSE ow

\* get_table_info: COUNT(*) and max(cursor field) over the matching rows
\* (-1 for a table that is not incremental, NULL when no row matches).
TableInfo(c, count, max, ctype) ==
    [size   |-> count,
     target |-> IF ~IsIncremental(c) THEN [t |-> "int", v |-> -1]
                ELSE IF count = 0 THEN [t |-> "null", v |-> 0]
                ELSE [t |-> ctype, v |-> max]]

NewCursorValueObserved(c, inf) ==
    IF IsIncremental(c) THEN [t |-> inf.target.t, v |-> srcMax] ELSE c

\* get_batches 288-290: the value the spec's cursor is set to when the
\* stream is exhausted.
NewCursorValue(c, inf) == IF IsIncremental(c) THEN inf.target ELSE c

StreamStartNoSizeCheck(inf, exec) ==
    IF inf = NoInfo THEN "no_info"
    ELSE IF exec = "error" THEN "execute_error"
    ELSE "open"

\* get_batches 268-276: what the generator does after the pre-scan.  An
\* empty info raises KeyError, which is logged; size 0 returns; else the
\* statement is executed, exec being its outcome.
StreamStart(inf, exec) ==
    IF inf = NoInfo THEN "no_info"
    ELSE IF inf.size = 0 THEN "empty"
    ELSE IF exec = "error" THEN "execute_error"
    ELSE "open"

\* What PGTable.__init__ may raise: RDBTable.__init__'s validation, the
\* type-mapping load, update_table_spec's catalog query.  (A failure to load
\* the reserved words is logged and construction goes on.)
ConstructErrors == {"ValidationError", "MappingLoadError", "CatalogQueryError"}

\* The state of a run: what each variable may hold.
TypeOK ==
    /\ DOMAIN config = Tables /\ DOMAIN preRun = Tables
    /\ \A i \in Tables : preRun[i] \in PreRunCursors
    /\ \A i \in Tables : config[i].t \in {"none", "int", "str", "datetime"}
    /\ Len(file) <= NumTables
    /\ pc \in {"loop", "recreate", "batches", "open", "fetch", "write",
               "table_end", "unwind", "cfg_write", "done", "crashed"}
    /\ cur \in 0..NumTables
    /\ mode \in AccessModes \cup {"unset"}
    /\ specMode \in SpecModes \cup {"unset"}
    /\ overwrite \in BOOLEAN /\ upsert \in BOOLEAN
    /\ srcCount \in 0..MaxRows
    /\ stream \in 0..MaxRows
    /\ batchNo \in 0..MaxRows
    /\ streamEnd \in {"none", "no_info", "empty", "execute_error",
                      "fetch_error", "exhausted"}
    /\ destExists \in BOOLEAN
    /\ Len(dumpFile) <= 1
    /\ raised \in {"none", "RecreateError"} \cup ConstructErrors
    /\ exitRaised \in {"none", "TypeError"}
    /\ extracted \in BOOLEAN

Dest == [exists |-> destExists, content |-> destContent, dump |-> dumpFile]

Init ==
    /\ config \in [Tables -> PreRunCursors]
    /\ preRun = config
    /\ prescanTarget = [i \in Tables |-> NoCursor]
    /\ file = JsonDumps(config)
    /\ pc = "loop"
    /\ cur = 0
    /\ mode = "unset"
    /\ specMode = "unset"
    /\ overwrite = FALSE
    /\ upsert = FALSE
    /\ info = NoInfo
    /\ srcCount = 0
    /\ srcMax = 0
    /\ stream = 0
    /\ batchNo = 0
    /\ streamEnd = "none"
    /\ destExists = FALSE
    /\ destContent = <<>>
    /\ dumpFile = <<>>
    /\ trace = <<>>
    /\ raised = "none"
    /\ exitRaised = "none"
    /\ extracted = FALSE
    /\ arg = "none"
    /\ ret = "none"

\* The variables of the loop body hold nothing once the loop is left.
LoopScopeLeft ==
    /\ mode' = "unset"
    /\ specMode' = "unset"
    /\ overwrite' = FALSE
    /\ upsert' = FALSE
    /\ info' = NoInfo
    /\ srcCount' = 0
    /\ srcMax' = 0
    /\ stream' = 0
    /\ batchNo' = 0
    /\ streamEnd' = "none"
    /\ destExists' = FALSE
    /\ destContent' = <<>>
    /\ dumpFile' = <<>>
    /\ trace' = <<>>

\* main.py 39-44: the loop takes the next table spec and constructs its
\* PGTable; an exception leaves the loop and the with statement.
Construct ==
    /\ pc = "loop"
    /\ cur < NumTables
    /\ cur' = cur + 1
    /\ trace' = <<>>
    /\ info' = NoInfo
    /\ stream' = 0
    /\ batchNo' = 0
    /\ streamEnd' = "none"
    /\ overwrite' = FALSE
    /\ upsert' = FALSE
    /\ dumpFile' = <<>>
    /\ \/ /\ specMode' \in SpecModes
          /\ mode' = TargetAccessMode(specMode')
          /\ destExists' \in BOOLEAN
          /\ destContent' = IF destExists' THEN <<0>> ELSE <<>>
          /\ srcCount' \in 0..MaxRows
          /\ srcMax' = IF srcCount' > 0 THEN config[cur'].v + 1 ELSE config[cur'].v
          /\ pc' = IF mode' = "REPLACE" THEN "recreate" ELSE "batches"
          /\ UNCHANGED raised
       \/ /\ raised' \in ConstructErrors
          /\ pc' = "unwind"
          /\ specMode' = "unset"
          /\ mode' = "unset"
          /\ destExists' = FALSE
          /\ destContent' = <<>>
          /\ srcCount' = 0
          /\ srcMax' = 0
    /\ UNCHANGED <<config, preRun, prescanTarget, file, exitRaised, extracted, arg, ret>>

\* main.py 46-48: REPLACE recreates the destination table with the table's
\* PyArrow schema; an exception leaves the loop.
Recreate ==
    /\ pc = "recreate"
    /\ \E env \in RecreateEnv :
         LET r == RecreateTable(Dest, "canonical", env) IN
           /\ destExists' = r.d.exists
           /\ destContent' = r.d.content
           /\ dumpFile' = r.d.dump
           /\ trace' = trace \o r.ev
           /\ raised' = IF r.raised THEN "RecreateError" ELSE raised
           /\ pc' = IF r.raised THEN "unwind" ELSE "batches"
    /\ UNCHANGED <<config, preRun, prescanTarget, file, cur, mode, specMode,
                   overwrite, upsert, info, srcCount, srcMax, stream, batchNo,
                   streamEnd, exitRaised, arg, ret>>
    /\ extracted' = TRUE

\* main.py 50-58 and get_batches 264-266: the flags are set and the
\* generator starts with the pre-scan; a failing pre-scan leaves info empty.
PreScan ==
    /\ pc = "batches"
    /\ overwrite' = (mode = "OVERWRITE")
    /\ upsert' = (mode = "UPSERT")
    /\ \/ /\ \E ctype \in ColumnTypes(config[cur]) :
               info' = TableInfo(config[cur], srcCount, srcMax, ctype)
          /\ trace' = Append(trace, Event("prescan", 0, "none", "ok"))
       \/ /\ info' = NoInfo
          /\ trace' = Append(trace, Event("prescan", 0, "none", "error"))
    /\ pc' = "open"
    /\ UNCHANGED <<config, preRun, prescanTarget, file, cur, mode, specMode,
                   srcCount, srcMax, stream, batchNo, streamEnd, destExists,
                   destContent, dumpFile, raised, exitRaised, arg, ret>>
    /\ extracted' = TRUE

\* A concurrent writer of the source inserts a matching row between the
\* pre-scan and the execution of the statement.
SourceInsert ==
    /\ pc = "open"
    /\ info # NoInfo
    /\ srcCount < MaxRows
    /\ srcCount < info.size + MaxInserts
    /\ srcCount' = srcCount + 1
    /\ srcMax' = srcMax + 1
    /\ UNCHANGED <<config, preRun, prescanTarget, file, pc, cur, mode,
                   specMode, overwrite, upsert, info, stream, batchNo,
                   streamEnd, destExists, destContent, dumpFile, trace, raised, exitRaised, extracted, arg, ret>>

\* get_batches 268-276: an empty info (KeyError) or a failing execute is
\* logged and ends the generator; size 0 returns; else the server-side
\* cursor is opened on the rows the source holds now.
OpenStream ==
    /\ pc = "open"
    /\ \E exec \in Outcome :
         LET start == StreamStart(info, exec) IN
           IF start = "open"
           THEN /\ stream' = srcCount
                /\ pc' = "fetch"
                /\ UNCHANGED streamEnd
           ELSE /\ streamEnd' = start
                /\ pc' = "table_end"
                /\ UNCHANGED stream
    /\ UNCHANGED <<config, preRun, prescanTarget, file, cur, mode, specMode,
                   overwrite, upsert, info, srcCount, srcMax, batchNo,
                   destExists, destContent, dumpFile, trace, raised, exitRaised, extracted, arg, ret>>

FetchAdvancesOnError ==
    /\ pc = "fetch"
    /\ \/ /\ stream > 0
          /\ stream' = stream - Min(BatchSize, stream)
          /\ batchNo' = batchNo + 1
          /\ pc' = "write"
          /\ UNCHANGED <<config, prescanTarget, streamEnd>>
       \/ /\ stream = 0
          /\ streamEnd' = "exhausted"
          /\ config' = [config EXCEPT ![cur] = NewCursorValue(config[cur], info)]
          /\ prescanTarget' = [prescanTarget EXCEPT
                 ![cur] = IF IsIncremental(config[cur]) THEN info.target ELSE @]
          /\ pc' = "table_end"
          /\ UNCHANGED <<stream, batchNo>>
       \/ /\ streamEnd' = "fetch_error"
          /\ config' = [config EXCEPT ![cur] = NewCursorValue(config[cur], info)]
          /\ pc' = "table_end"
          /\ UNCHANGED <<prescanTarget, stream, batchNo>>
    /\ UNCHANGED <<preRun, file, cur, mode, specMode, overwrite, upsert, info,
                   srcCount, srcMax, destExists, destContent, dumpFile, trace, raised, exitRaised, extracted, arg, ret>>

\* get_batches 277-293: fetchmany yields the next batch; no rows ends the
\* stream and, for an incremental table, sets the spec's cursor value; a
\* failing fetch is logged and ends the generator.
Fetch ==
    /\ pc = "fetch"
    /\ \/ /\ stream > 0
          /\ stream' = stream - Min(BatchSize, stream)
          /\ batchNo' = batchNo + 1
          /\ pc' = "write"
          /\ UNCHANGED <<config, prescanTarget, streamEnd>>
       \/ /\ stream = 0
          /\ streamEnd' = "exhausted"
          /\ config' = [config EXCEPT ![cur] = NewCursorValue(config[cur], info)]
          /\ prescanTarget' = [prescanTarget EXCEPT
                 ![cur] = IF IsIncremental(config[cur]) THEN info.target ELSE @]
          /\ pc' = "table_end"
          /\ UNCHANGED <<stream, batchNo>>
       \/ /\ streamEnd' = "fetch_error"
          /\ pc' = "table_end"
          /\ UNCHANGED <<config, prescanTarget, stream, batchNo>>
    /\ UNCHANGED <<preRun, file, cur, mode, specMode, overwrite, upsert, info,
                   srcCount, srcMax, destExists, destContent, dumpFile, trace, raised, exitRaised, extracted, arg, ret>>

\* main.py 58-72: the loop body for the batch just yielded; an exception of
\* the call is logged and the loop goes on.
WriteBatch ==
    /\ pc = "write"
    /\ \E env \in WriteEnv :
         LET op == Route(overwrite, upsert)
             r == CASE op = "overwrite" -> OverwriteTable(Dest, batchNo, env)
                    [] op = "upsert"    -> UpsertTable(Dest, batchNo)
                    [] op = "append"    -> AppendTable(Dest, batchNo, env)
         IN /\ destExists' = r.d.exists
            /\ destContent' = r.d.content
            /\ dumpFile' = r.d.dump
            /\ trace' = trace \o r.ev
            /\ overwrite' = OverwriteAfter(overwrite, op, r.raised)
    /\ pc' = "fetch"
    /\ UNCHANGED <<config, preRun, prescanTarget, file, cur, mode, specMode,
                   upsert, info, srcCount, srcMax, stream, batchNo, streamEnd, raised, exitRaised, extracted, arg, ret>>

\* main.py 39: the batch loop of the table is over and the for statement
\* goes to the next table spec, if any.
EndTable ==
    /\ pc = "table_end"
    /\ pc' = "loop"
    /\ LoopScopeLeft
    /\ UNCHANGED <<config, preRun, prescanTarget, file, cur, raised, exitRaised, extracted, arg, ret>>

\* PGSource.__exit__ up to the open of update_config_file: the connection is
\* closed, json.dumps runs (a TypeError leaves the file untouched), and
\* open(..., "w") truncates the file.
ExitSource ==
    /\ \/ pc = "unwind"
       \/ pc = "loop" /\ cur = NumTables
    /\ IF CanDump(config)
       THEN /\ file' = <<>>
            /\ pc' = "cfg_write"
            /\ UNCHANGED exitRaised
       ELSE /\ exitRaised' = "TypeError"
            /\ pc' = "done"
            /\ UNCHANGED file
    /\ LoopScopeLeft
    /\ UNCHANGED <<config, preRun, prescanTarget, cur, raised, extracted, arg, ret>>

\* update_config_file 46-47: the text is written and the file closed.
WriteConfig ==
    /\ pc = "cfg_write"
    /\ file' = JsonDumps(config)
    /\ pc' = "done"
    /\ UNCHANGED <<config, preRun, prescanTarget, cur, mode, specMode,
                   overwrite, upsert, info, srcCount, srcMax, stream, batchNo,
                   streamEnd, destExists, destContent, dumpFile, trace, raised, exitRaised, extracted, arg, ret>>

\* The process stops (kill, power loss).  While the text is being written
\* the file keeps what reached the disk: a proper prefix of the text.
Crash ==
    /\ pc \notin {"done", "crashed"}
    /\ pc' = "crashed"
    /\ IF pc = "cfg_write"
       THEN \E n \in 0..(NumTables - 1) : file' = SubSeq(JsonDumps(config), 1, n)
       ELSE UNCHANGED file
    /\ LoopScopeLeft
    /\ UNCHANGED <<config, preRun, prescanTarget, cur, raised, exitRaised, extracted, arg, ret>>

Next ==
    \/ Construct
    \/ Recreate
    \/ PreScan
    \/ SourceInsert
    \/ OpenStream
    \/ Fetch
    \/ WriteBatch
    \/ EndTable
    \/ ExitSource
    \/ WriteConfig
    \/ Crash

Spec == Init /\ [][Next]_vars


\* ------------------------------------------------- unit specifications
\* A unit specification examines one function of the program on its own:
\* its initial states draw the function's input (arg) from a bounded set,
\* and its actions apply the function (ret).  No run of main is under way.
NoRun ==
    /\ config = [i \in Tables |-> NoCursor]
    /\ preRun = config
    /\ prescanTarget = [i \in Tables |-> NoCursor]
    /\ file = JsonDumps(config)
    /\ pc = "done"
    /\ cur = 0
    /\ mode = "unset"
    /\ specMode = "unset"
    /\ overwrite = FALSE
    /\ upsert = FALSE
    /\ info = NoInfo
    /\ srcCount = 0
    /\ srcMax = 0
    /\ stream = 0
    /\ batchNo = 0
    /\ streamEnd = "none"
    /\ destExists = FALSE
    /\ destContent = <<>>
    /\ dumpFile = <<>>
    /\ trace = <<>>
    /\ raised = "none"
    /\ exitRaised = "none"
    /\ extracted = FALSE

\* ---------------------------------------- get_batches: the fetch loop
MaxStream == 7      \* rows the statement returns
MaxBatch == 3       \* the greatest batch_size a table spec gives

\* rdb.py: the batch size of a spec without "batch_size".
DEFAULT_BATCH_SIZE == 10000

\* Table specs as far as the batch size goes: with or without "batch_size".
BatchSpecs ==
    {[name |-> "t"]} \cup {[name |-> "t", batch_size |-> b] : b \in 1..MaxBatch}

\* RDBTable.batch_size.
BatchSizeOf(spec) ==
    IF "batch_size" \in DOMAIN spec THEN spec.batch_size ELSE DEFAULT_BATCH_SIZE

FetchmanyOneRow(rows, size) == SubSeq(rows, 1, Min(1, Len(rows)))

\* cur.fetchmany(size): the next size rows of the cursor, fewer when fewer
\* are left, none when none is left.
Fetchmany(rows, size) == SubSeq(rows, 1, Min(size, Len(rows)))

\* The rows the statement returns are numbered in the order the source
\* returns them.
InitBatches ==
    /\ NoRun
    /\ \E n \in 0..MaxStream, spec \in BatchSpecs :
          arg = [spec |-> spec, rows |-> [i \in 1..n |-> i]]
    /\ ret = [cursor |-> arg.rows, batches |-> <<>>, end |-> "none"]

\* get_batches 277-293, one turn of the while loop: fetchmany; no rows
\* breaks the loop; else the rows are made one table, which is yielded.  A
\* failing fetch is logged and ends the generator.
FetchLoop ==
    /\ ret.end = "none"
    /\ \/ LET rows == Fetchmany(ret.cursor, BatchSizeOf(arg.spec)) IN
            IF rows = <<>>
            THEN ret' = [ret EXCEPT !.end = "exhausted"]
            ELSE ret' = [cursor |-> SubSeq(ret.cursor, Len(rows) + 1, Len(ret.cursor)),
                         batches |-> Append(ret.batches, rows),
                         end |-> "none"]
       \/ ret' = [ret EXCEPT !.end = "error"]
    /\ UNCHANGED <<arg, runVars>>

NextBatches == FetchLoop

SpecBatches == InitBatches /\ [][NextBatches]_vars

\* ------------------------------------------------------ RDBTable.query
MaxFilterLen == 3   \* characters of a spec's filter_exp

\* The strings of at most n characters over an alphabet.
RECURSIVE Strings(_, _)
Strings(alphabet, n) ==
    IF n = 0 THEN {""}
    ELSE LET shorter == Strings(alphabet, n - 1)
         IN shorter \cup {t \o c : t \in shorter, c \in alphabet}

\* str.strip(): leading and trailing whitespace removed.
RECURSIVE Strip(_)
Strip(t) ==
    IF t = "" THEN ""
    ELSE IF SubSeq(t, 1, 1) = " " THEN Strip(SubSeq(t, 2, Len(t)))
    ELSE IF SubSeq(t, Len(t), Len(t)) = " " THEN Strip(SubSeq(t, 1, Len(t) - 1))
    ELSE t

\* sep.join(items).
RECURSIVE Join(_, _)
Join(sep, items) ==
    IF items = <<>> THEN ""
    ELSE IF Len(items) = 1 THEN items[1]
    ELSE items[1] \o sep \o Join(sep, Tail(items))

\* The parts of a table spec the statement is built from.  A key that is
\* absent is absent from the record.
FilterParts ==
    {[namespace |-> "public"]}
        \cup {[namespace |-> "public", filter_exp |-> t] :
                 t \in Strings({" ", "a"}, MaxFilterLen)}
\* A cursor value is an int or a str of the document; v is its text.
CursorParts ==
    {[name |-> "orders"]}
        \cup {[name |-> "orders",
               cursor |-> [field |-> f, operator |-> o, value |-> v]] :
                 f \in {"id", "xid"}, o \in {">", ">="},
                 v \in {[t |-> "int", v |-> "100"], [t |-> "str", v |-> "2024-01-01"]}}
QuerySpecs == {f @@ c : f \in FilterParts, c \in CursorParts}

\* The schema update_table_spec leaves: the column expressions of the rows
\* the catalog returned, none when it returned none.
QuerySchemas == {<<>>, <<"id">>, <<"id", "\"select\"", "uid::text as uid">>}

\* RDBTable.__init__ 83-86: the spec's filter_exp stripped, "" without one.
FilterExp(spec) ==
    IF "filter_exp" \in DOMAIN spec THEN Strip(spec.filter_exp) ELSE ""

\* update_table_spec 199-216: the cursor expression of an incremental
\* table; a str value is quoted, the field xid is read from xmin.
CursorExp(spec) ==
    IF "cursor" \notin DOMAIN spec THEN ""
    ELSE LET field == spec.cursor.field
             op == spec.cursor.operator
             value == IF spec.cursor.value.t = "str"
                      THEN "'" \o spec.cursor.value.v \o "'"
                      ELSE spec.cursor.value.v
         IN IF field = "xid"
            THEN "xmin::TEXT::BIGINT " \o op \o " " \o value
            ELSE "\"" \o field \o "\" " \o op \o " " \o value

\* The table object once PGTable.__init__ has returned.
TableOf(spec, schema) ==
    [namespace |-> spec.namespace,
     name |-> spec.name,
     schema |-> schema,
     filter_exp |-> FilterExp(spec),
     is_incremental |-> "cursor" \in DOMAIN spec,
     cursor_exp |-> CursorExp(spec)]

QueryAlwaysAnd(t) ==
    LET base == "SELECT " \o Join(", ", t.schema) \o " FROM "
                    \o t.namespace \o "." \o t.name
        filtered == IF t.filter_exp # ""
                    THEN base \o " WHERE (" \o t.filter_exp \o ")" ELSE base
    IN IF ~t.is_incremental THEN [raised |-> FALSE, query |-> filtered]
       ELSE IF t.cursor_exp = "" THEN [raised |-> TRUE, query |-> ""]
       ELSE [raised |-> FALSE,
             query |-> filtered \o " AND " \o "(" \o t.cursor_exp \o ")"]

QueryDropsCursor(t) ==
    LET base == "SELECT " \o Join(", ", t.schema) \o " FROM "
                    \o t.namespace \o "." \o t.name
        filtered == IF t.filter_exp # ""
                    THEN base \o " WHERE (" \o t.filter_exp \o ")" ELSE base
    IN IF ~t.is_incremental \/ t.cursor_exp = ""
       THEN [raised |-> FALSE, query |-> filtered]
       ELSE [raised |-> FALSE,
             query |-> filtered
                        \o (IF t.filter_exp # "" THEN " AND " ELSE " WHERE ")
                        \o "(" \o t.cursor_exp \o ")"]

\* RDBTable.query: the statement, or ValueError for an incremental table
\* without a cursor expression.
Query(t) ==
    LET base == "SELECT " \o Join(", ", t.schema) \o " FROM "
                    \o t.namespace \o "." \o t.name
        filtered == IF t.filter_exp # ""
                    THEN base \o " WHERE (" \o t.filter_exp \o ")" ELSE base
    IN IF ~t.is_incremental THEN [raised |-> FALSE, query |-> filtered]
       ELSE IF t.cursor_exp = "" THEN [raised |-> TRUE, query |-> ""]
       ELSE [raised |-> FALSE,
             query |-> filtered
                        \o (IF t.filter_exp # "" THEN " AND " ELSE " WHERE ")
                        \o "(" \o t.cursor_exp \o ")"]

InitQuery ==
    /\ NoRun
    /\ \E spec \in QuerySpecs, schema \in QuerySchemas : arg = TableOf(spec, schema)
    /\ ret = [state |-> "constructed", raised |-> FALSE, query |-> ""]

\* get_batches 275 and get_table_info 223: the table's statement is built.
BuildQuery ==
    /\ ret.state = "constructed"
    /\ ret' = [state |-> "built"] @@ Query(arg)
    /\ UNCHANGED <<arg, runVars>>

NextQuery == BuildQuery

SpecQuery == InitQuery /\ [][NextQuery]_vars


\* ------------------------------------------- PGTable.escape_column_name
MaxNameLen == 3     \* characters of a column name

\* PGTable.__init__ 79: the special characters (the backquote, which no
\* column name drawn here holds, is left out).
SpecialCharacters ==
    {" ", "!", "\"", "#", "$", "%", "&", "'", "(", ")", "*", "+", ",", ".",
     "/", ":", ";", "<", "=", ">", "?", "@", "[", "\\", "]", "^", "{",
     "|", "}", "~"}

\* Reserved words pg_get_keywords() returns (some of them).
PgReservedWords == {"as", "select"}

\* The column names the catalog may return: any non-empty string.
ColumnNames == Strings({"a", "s", "A", "S", " ", "\""}, MaxNameLen) \ {""}

\* str.lower().
RECURSIVE Lower(_)
Lower(t) ==
    IF t = "" THEN ""
    ELSE LET c == SubSeq(t, 1, 1)
             l == CASE c = "A" -> "a" [] c = "S" -> "s" [] OTHER -> c
         IN l \o Lower(SubSeq(t, 2, Len(t)))

\* any(c in special_characters for c in column_name).
HasSpecialCharacter(column_name) ==
    \E i \in 1..Len(column_name) : SubSeq(column_name, i, i) \in SpecialCharacters

\* PGTable.escape_column_name.
EscapeColumnName(column_name, reserved_keywords) ==
    IF Lower(column_name) \in reserved_keywords \/ HasSpecialCharacter(column_name)
    THEN "\"" \o column_name \o "\""
    ELSE column_name

\* PGTable.__init__ 76-89: the reserved words are those of the catalog, or
\* none when the query for them failed (the failure is logged only).
InitEscape ==
    /\ NoRun
    /\ \E name \in ColumnNames, words \in {PgReservedWords, {}} :
          arg = [column_name |-> name, reserved_keywords |-> words]
    /\ ret = [state |-> "name", once |-> "", twice |-> ""]

\* update_table_spec 145: the column name is escaped.
EscapeName ==
    /\ ret.state = "name"
    /\ ret' = [ret EXCEPT !.state = "escaped",
                          !.once = EscapeColumnName(arg.column_name, arg.reserved_keywords)]
    /\ UNCHANGED <<arg, runVars>>

\* The escaped name is escaped again.
EscapeAgain ==
    /\ ret.state = "escaped"
    /\ ret' = [ret EXCEPT !.state = "escaped_twice",
                          !.twice = EscapeColumnName(ret.once, arg.reserved_keywords)]
    /\ UNCHANGED <<arg, runVars>>

NextEscape == EscapeName \/ EscapeAgain

SpecEscape == InitEscape /\ [][NextEscape]_vars


\* ---------------------------------- update_table_spec: the type mapping
MaxPrecision == 2   \* the greatest numeric_precision the catalog reports

\* resource/pg_pa_dt_mapping.json, the static table: udt_name -> the name
\* of the PyArrow type factory (simple numeric, string and boolean types).
DtMappings ==
    [t \in {"int2", "int4", "int8", "float4", "float8", "bool", "varchar", "text"} |->
        CASE t = "int2" -> "int16"
          [] t = "int4" -> "int32"
          [] t = "int8" -> "int64"
          [] t = "float4" -> "float32"
          [] t = "float8" -> "float64"
          [] t = "bool" -> "bool_"
          [] OTHER -> "string"]

\* The type names the elif chain of update_table_spec tests for.
TextCastTypes == {"bit", "varbit", "bytea", "uuid", "json", "jsonb", "xml"}
TimeTypes == {"time", "timez", "timestamp", "timestampz"}

\* Type names of the catalog met by no test.
OtherTypes == {"timestamptz", "geometry"}

UdtNames ==
    DOMAIN DtMappings \cup TextCastTypes \cup TimeTypes \cup OtherTypes
        \cup {"money", "numeric", "date", "interval"}

\* A value psycopg2 returns for an integer column: None for NULL, else int.
PyNone == [t |-> "None", v |-> 0]
PyInts(set) == {[t |-> "int", v |-> n] : n \in set}

\* A row of the catalog query, the column name as escaped (rows 0 to 3; a
\* numeric column declared without precision has NULL precision and scale).
CatalogRows ==
    {row \in [column_name : {"id", "\"as\""},
              udt_name : UdtNames,
              numeric_precision : {PyNone} \cup PyInts(1..MaxPrecision),
              numeric_scale : {PyNone} \cup PyInts(0..MaxPrecision)] :
        row.numeric_precision.t = row.numeric_scale.t}

\* What the body of the for loop leaves for one row.
Mapped(column_name, pa_data_type, warning) ==
    [raised |-> FALSE, column_name |-> column_name,
     pa_data_type |-> pa_data_type, warning |-> warning]

\* pa.decimal128(precision, scale).
Decimal128(precision, scale) ==
    "decimal128(" \o ToString(precision) \o ", " \o ToString(scale) \o ")"

\* update_table_spec 153-191: the column expression and the PyArrow type
\* of one catalog row; int(None) raises TypeError.
TypeMap(row, dt_mappings) ==
    LET c == row.column_name
        t == row.udt_name
    IN IF t \in DOMAIN dt_mappings THEN Mapped(c, dt_mappings[t], FALSE)
       ELSE IF t \in TextCastTypes THEN Mapped(c \o "::text as " \o c, "string", FALSE)
       ELSE IF t = "money"
       THEN Mapped(c \o "::numeric(21,4) as " \o c, Decimal128(21, 4), FALSE)
       ELSE IF t = "numeric"
       THEN IF row.numeric_precision.t # "int" \/ row.numeric_scale.t # "int"
            THEN [raised |-> TRUE, column_name |-> c, pa_data_type |-> "", warning |-> FALSE]
            ELSE Mapped(c, Decimal128(row.numeric_precision.v, row.numeric_scale.v), FALSE)
       ELSE IF t = "date"
       THEN Mapped("tochar(" \o c \o ", 'YYYY-MM-DD')::text as " \o c, "string", FALSE)
       ELSE IF t \in TimeTypes
       THEN Mapped("to_char(" \o c \o ", 'YYYY-MM-DD HH24:MI:SS.US') as " \o c, "string", FALSE)
       ELSE IF t = "interval" THEN Mapped(c \o "::text as " \o c, "string", FALSE)
       ELSE Mapped(c \o "::text as " \o c, "string", TRUE)

InitTypeMap ==
    /\ NoRun
    /\ arg \in CatalogRows
    /\ ret = [state |-> "row"] @@ Mapped("", "", FALSE)

\* update_table_spec 144-193: one turn of the loop over the catalog rows.
MapRow ==
    /\ ret.state = "row"
    /\ ret' = [state |-> "mapped"] @@ TypeMap(arg, DtMappings)
    /\ UNCHANGED <<arg, runVars>>

NextTypeMap == MapRow

SpecTypeMap == InitTypeMap /\ [][NextTypeMap]_vars


\* ------------------------------- the configuration document's write-back
\* The document as a Python dict: its items in order, each a path of keys
\* and a value [t: Python type, v: text].
Item(key, t, v) == [key |-> key, val |-> [t |-> t, v |-> v]]

\* Kinds of table spec: without a cursor, with an int cursor value, with a
\* str cursor value.
TableKinds == {"full", "int", "str"}

CursorValueKey(i) == "tables." \o ToString(i) \o ".cursor.value"

\* The items of table spec i.
TableItems(i, kind) ==
    LET k(name) == "tables." \o ToString(i) \o "." \o name
    IN <<Item(k("namespace"), "str", "public"),
         Item(k("name"), "str", "t" \o ToString(i)),
         Item(k("columns"), "str", "id, amount"),
         Item(k("filter_exp"), "str", "amount > 0"),
         Item(k("target.namespace"), "str", "lake"),
         Item(k("target.access_mode"), "str", "APPEND")>>
       \o (IF kind = "full" THEN <<>>
           ELSE <<Item(k("cursor.field"), "str", "id"),
                  Item(k("cursor.operator"), "str", ">"),
                  Item(CursorValueKey(i), kind, "100")>>)

RECURSIVE AllTableItems(_, _)
AllTableItems(kinds, i) ==
    IF i > Len(kinds) THEN <<>>
    ELSE TableItems(i, kinds[i]) \o AllTableItems(kinds, i + 1)

\* A configuration document: type, connection parameters, the tunnel
\* sub-document when use_ssh is set, and the table specs in order.
ConfigDocument(use_ssh, kinds) ==
    <<Item("type", "str", "Postgres"),
      Item("database.host", "str", "db.internal"),
      Item("database.port", "int", "5432"),
      Item("database.database", "str", "shop"),
      Item("database.user", "str", "etl"),
      Item("database.password", "str", "secret"),
      Item("database.use_ssh", "bool", IF use_ssh THEN "true" ELSE "false")>>
    \o (IF use_ssh
        THEN <<Item("database.ssh_config.ssh_host", "str", "bastion"),
               Item("database.ssh_config.ssh_port", "int", "22"),
               Item("database.ssh_config.ssh_user", "str", "etl"),
               Item("database.ssh_config.ssh_pkey", "str", "~/.ssh/id")>>
        ELSE <<>>)
    \o AllTableItems(kinds, 1)

\* json.dumps of a value: a datetime is not JSON serializable.
DocSerializable(val) == val.t \in {"str", "int", "bool"}

DocEncode(val) ==
    CASE val.t = "str" -> [j |-> "string", v |-> val.v]
      [] val.t = "int" -> [j |-> "number", v |-> val.v]
      [] val.t = "bool" -> [j |-> "literal", v |-> val.v]

\* json.load of a value.
DocDecode(x) ==
    CASE x.j = "string" -> [t |-> "str", v |-> x.v]
      [] x.j = "number" -> [t |-> "int", v |-> x.v]
      [] x.j = "literal" -> [t |-> "bool", v |-> x.v]

\* json.dumps(config, indent=4): the items in the dict's order.
DocDumps(doc) == [n \in DOMAIN doc |-> [key |-> doc[n].key, json |-> DocEncode(doc[n].val)]]

\* json.load of the text.
DocLoads(text) == [n \in DOMAIN text |-> [key |-> text[n].key, val |-> DocDecode(text[n].json)]]

\* The values max(cursor field) may return for a cursor of the kind given.
TargetValues(kind) ==
    IF kind = "int" THEN {[t |-> "int", v |-> "250"]}
    ELSE {[t |-> "str", v |-> "2024-06-30"], [t |-> "datetime", v |-> "2024-06-30 00:00:00"]}

SetItemOperator(doc, i, val) ==
    [n \in DOMAIN doc |->
        IF doc[n].key = "tables." \o ToString(i) \o ".cursor.operator"
        THEN [doc[n] EXCEPT !.val = val] ELSE doc[n]]

\* get_batches 290: spec["cursor"]["value"] = value, the spec being the
\* dict of the document.
SetCursorValue(doc, i, val) ==
    [n \in DOMAIN doc |->
        IF doc[n].key = CursorValueKey(i) THEN [doc[n] EXCEPT !.val = val] ELSE doc[n]]

\* Source.__init__ and RDBSource.__init__: the document is loaded from the
\* file, host and port are copied into attributes of the source.
InitConfig ==
    /\ NoRun
    /\ \E use_ssh \in BOOLEAN, kinds \in [Tables -> TableKinds] :
          arg = [use_ssh |-> use_ssh, kinds |-> kinds,
                 document |-> ConfigDocument(use_ssh, kinds)]
    /\ ret = [state |-> "loaded",
              config |-> DocLoads(DocDumps(arg.document)),
              file |-> DocDumps(arg.document),
              host |-> "db.internal",
              table |-> 0,
              exhausted |-> {}]

\* PGSource.__enter__: with use_ssh the tunnel is started and the source's
\* host attribute is set to the tunnel's local bind host.
EnterSource ==
    /\ ret.state = "loaded"
    /\ ret' = [ret EXCEPT !.state = "entered",
                          !.host = IF arg.use_ssh THEN "127.0.0.1" ELSE @]
    /\ UNCHANGED <<arg, runVars>>

\* main.py 39-72 as far as the document goes: the next table is replicated;
\* when its stream is exhausted and it is incremental its cursor value is
\* set; when its stream ends otherwise nothing is set.
ReplicateTable ==
    /\ ret.state = "entered"
    /\ ret.table < NumTables
    /\ LET i == ret.table + 1 IN
         \/ /\ arg.kinds[i] # "full"
            /\ \E val \in TargetValues(arg.kinds[i]) :
                 ret' = [ret EXCEPT !.table = i,
                                    !.exhausted = @ \cup {i},
                                    !.config = SetCursorValue(@, i, val)]
         \/ /\ arg.kinds[i] = "full"
            /\ ret' = [ret EXCEPT !.table = i, !.exhausted = @ \cup {i}]
         \/ ret' = [ret EXCEPT !.table = i]
    /\ UNCHANGED <<arg, runVars>>

\* PGSource.__exit__ and update_config_file, after the last table or when an
\* exception left the loop: json.dumps raises TypeError on a value that is
\* not serializable, else the file is rewritten.
UpdateConfigFile ==
    /\ ret.state = "entered"
    /\ IF \A n \in DOMAIN ret.config : DocSerializable(ret.config[n].val)
       THEN ret' = [ret EXCEPT !.state = "rewritten", !.file = DocDumps(ret.config)]
       ELSE ret' = [ret EXCEPT !.state = "exit_raised"]
    /\ UNCHANGED <<arg, runVars>>

NextConfig == EnterSource \/ ReplicateTable \/ UpdateConfigFile

SpecConfig == InitConfig /\ [][NextConfig]_vars


\* --------------------- RDBTable.query before the cursor expression is set
\* The table object once RDBTable.__init__ has returned and before
\* update_table_spec sets the cursor expression: cursor_exp is "".
BaseTableOf(spec, schema) ==
    [namespace |-> spec.namespace,
     name |-> spec.name,
     schema |-> schema,
     filter_exp |-> FilterExp(spec),
     is_incremental |-> "cursor" \in DOMAIN spec,
     cursor_exp |-> ""]

InitBaseQuery ==
    /\ NoRun
    /\ \E spec \in QuerySpecs, schema \in QuerySchemas : arg = BaseTableOf(spec, schema)
    /\ ret = [state |-> "constructed", raised |-> FALSE, query |-> ""]

\* get_batches 264-293 for the table: the pre-scan (its statement is built
\* from cursor_exp itself and its outcome is the database's), then inside
\* the try the statement of self.query is executed; an exception, that of
\* self.query included, is logged and ends the generator.
GetBatches ==
    /\ ret.state = "constructed"
    /\ \E prescan \in Outcome, exec \in Outcome, size \in 0..1 :
         LET inf == IF prescan = "error" THEN NoInfo
                    ELSE [size |-> size, target |-> NoCursor]
             start == StreamStart(inf, exec)
             end == IF start \in {"open", "execute_error"} /\ Query(arg).raised
                    THEN "query_error" ELSE start
         IN ret' = [state |-> "generator",
                    end |-> end,
                    yielded |-> IF end = "open" THEN size ELSE 0,
                    propagated |-> FALSE]
    /\ UNCHANGED <<arg, runVars>>

NextBaseQuery == BuildQuery \/ GetBatches

SpecBaseQuery == InitBaseQuery /\ [][NextBaseQuery]_vars


\* ------------------------------------------------------------------ claims
IsWrite(e) == e.op \in {"append", "overwrite", "upsert"}

\* The append/overwrite/upsert calls made for the current table, in order.
WriteCalls == SelectSeq(trace, IsWrite)

Ops(set) == {i \in DOMAIN trace : trace[i].op \in set}

CeilDiv(n, b) == (n + b - 1) \div b

\* The current table's batch loop has handled every batch yielded so far.
BetweenBatches == pc \in {"fetch", "table_end"}

\* C1: for a table whose target access mode is OVERWRITE the write calls are
\* one overwrite carrying batch 1 followed by appends carrying batches 2, 3,
\* ... in order: no batch with index >= 2 is passed to overwrite, whatever
\* the outcome of the earlier destination calls.
C1_OverwriteThenAppend ==
    mode = "OVERWRITE" =>
        \A i \in DOMAIN WriteCalls :
            /\ WriteCalls[i].b = i
            /\ WriteCalls[i].op = IF i = 1 THEN "overwrite" ELSE "append"

\* C2: for a table whose target access mode is REPLACE, once the run is past
\* the recreate step the calls made for the table begin with a drop (which
\* does not fail when the table is absent) followed by a create with the
\* canonical schema, both before the pre-scan and before any batch write, no
\* further drop is made, and every batch is passed to append, in order.
C2_ReplaceRecreatesFirst ==
    (mode = "REPLACE" /\ pc \in {"batches", "open", "fetch", "write", "table_end"}) =>
        /\ Len(trace) >= 2
        /\ trace[1].op = "drop" /\ trace[1].res \in {"ok", "nosuch"}
        /\ trace[2].op = "create" /\ trace[2].sch = "canonical"
        /\ Ops({"drop"}) = {1}
        /\ \A i \in Ops({"prescan", "append", "overwrite", "upsert", "dump"}) : i > 2
        /\ \A i \in DOMAIN WriteCalls :
              WriteCalls[i].op = "append" /\ WriteCalls[i].b = i

\* C2 witness: a REPLACE table whose destination was absent (the drop hit
\* NoSuchTableError) streamed two batches or more to the end.
C2_Witness ==
    /\ mode = "REPLACE"
    /\ pc = "table_end"
    /\ streamEnd = "exhausted"
    /\ batchNo >= 2
    /\ trace[1].res = "nosuch"
    /\ Len(WriteCalls) = batchNo

\* C3: when the write of append_table or overwrite_table fails on batch i,
\* exactly one dump is made for batch i, right after the create the call may
\* have made; no exception leaves the batch loop; and the loop goes on: every
\* batch yielded has had its one write call when the next is asked for, and a
\* stream that ends exhausted has yielded every batch of the statement.
C3_WriteFailureContained ==
    \A i \in DOMAIN trace :
        (trace[i].op \in {"append", "overwrite"} /\ trace[i].res = "failed") =>
            /\ Cardinality({j \in Ops({"dump"}) : trace[j].b = trace[i].b}) = 1
            /\ \E j \in Ops({"dump"}) :
                  /\ j > i
                  /\ trace[j].b = trace[i].b
                  /\ \A m \in (i + 1)..(j - 1) : trace[m].op = "create"
            /\ raised = "none"
            /\ pc \in {"fetch", "write", "table_end"}
            /\ BetweenBatches =>
                  \A b \in 1..batchNo :
                      Cardinality({j \in Ops({"append", "overwrite", "upsert"}) :
                                      trace[j].b = b}) = 1
            /\ streamEnd = "exhausted" => batchNo = CeilDiv(srcCount, BatchSize)

\* C3 witness: the write of batch 2 of 3 failed and batch 3 was written.
C3_Witness ==
    /\ pc = "table_end"
    /\ streamEnd = "exhausted"
    /\ batchNo = 3
    /\ \E i \in DOMAIN trace :
          trace[i].op = "append" /\ trace[i].b = 2 /\ trace[i].res = "failed"
    /\ \E i \in DOMAIN trace :
          trace[i].op = "append" /\ trace[i].b = 3 /\ trace[i].res = "ok"

\* C4: an exception raised while a table is prepared aborts only that table:
\* at the end of the run every table of the configuration has been attempted.
C4_LaterTablesAttempted ==
    pc = "done" => cur = NumTables

\* C5: at the end of a run whose table loop no exception left, for every
\* incremental table whose stream was exhausted, the configuration file
\* reloaded holds the high-water mark the pre-scan computed.
C5_CursorRoundTrip ==
    (pc = "done" /\ raised = "none") =>
        \A i \in Tables :
            prescanTarget[i] # NoCursor =>
                /\ ValidDocument(file)
                /\ JsonLoads(file)[i] = prescanTarget[i]

\* C6: at every point of a run the configuration file is a complete document
\* holding for each table its pre-run cursor value or its advanced one.
C6_ConfigFileAlwaysValid ==
    /\ ValidDocument(file)
    /\ \A i \in Tables :
          \/ JsonLoads(file)[i] = preRun[i]
          \/ prescanTarget[i] # NoCursor /\ JsonLoads(file)[i] = prescanTarget[i]

\* C7: when the pre-scan reports size 0 the generator yields no batch, no
\* append, overwrite or upsert call is made for the table, and the table's
\* cursor value stays what it was.
C7_EmptyPreScanWritesNothing ==
    (info # NoInfo /\ info.size = 0) =>
        /\ pc \in {"open", "table_end"}
        /\ batchNo = 0
        /\ WriteCalls = <<>>
        /\ streamEnd \in {"none", "empty"}
        /\ config[cur] = preRun[cur]
        /\ prescanTarget[cur] = NoCursor

\* C7 witness: an incremental table whose pre-scan found no row ended with
\* no batch although a row was inserted after the pre-scan.
C7_Witness ==
    /\ info # NoInfo /\ info.size = 0
    /\ pc = "table_end"
    /\ streamEnd = "empty"
    /\ IsIncremental(config[cur])
    /\ srcCount > 0

\* C8 as claimed: a table whose target has no access_mode has every batch,
\* the first included, passed to append, and no overwrite or drop is issued.
C8_DefaultAppends ==
    specMode = "ABSENT" =>
        /\ \A i \in DOMAIN WriteCalls : WriteCalls[i].op = "append"
        /\ Ops({"drop", "overwrite"}) = {}

\* C8 amended: a table whose target has no access_mode is written as an
\* OVERWRITE table: its first batch is passed to overwrite, not append; no
\* drop is issued and no create is made before the first batch is written.
C8_DefaultOverwrites ==
    specMode = "ABSENT" =>
        /\ mode = "OVERWRITE"
        /\ WriteCalls # <<>> =>
              WriteCalls[1].op = "overwrite" /\ WriteCalls[1].b = 1
        /\ Ops({"drop"}) = {}
        /\ \A i \in Ops({"create"}) :
              \E j \in Ops({"append", "overwrite", "upsert"}) : j < i

\* C8 witness: a table with no access_mode had its first batch overwritten
\* and a second batch written.
C8_Witness ==
    /\ specMode = "ABSENT"
    /\ BetweenBatches
    /\ Len(WriteCalls) >= 2
    /\ WriteCalls[1].op = "overwrite" /\ WriteCalls[1].res = "ok"

\* C9: for a table whose target access mode is READONLY no create, drop,
\* append, overwrite or upsert call is ever made against the destination.
C9_ReadonlyNeverWritten ==
    mode = "READONLY" =>
        Ops({"create", "drop", "append", "overwrite", "upsert"}) = {}

\* C10: for a table whose target access mode is APPEND every batch yielded
\* triggers exactly one append call, in the order the batches were yielded,
\* and no overwrite or drop call is made.
C10_AppendEveryBatch ==
    mode = "APPEND" =>
        /\ Len(WriteCalls) = IF pc = "write" THEN batchNo - 1 ELSE batchNo
        /\ \A i \in DOMAIN WriteCalls :
              WriteCalls[i].op = "append" /\ WriteCalls[i].b = i
        /\ Ops({"overwrite", "drop"}) = {}

\* C10 witness: an APPEND table streamed three batches to the end.
C10_Witness ==
    /\ mode = "APPEND"
    /\ pc = "table_end"
    /\ streamEnd = "exhausted"
    /\ batchNo = 3
    /\ Len(WriteCalls) = 3

\* C11: when a table spec fails RDBTable.__init__'s validation the run has
\* made no pre-scan, streamed no batch and made no destination call, for any
\* table, the tables listed before the invalid one included.
C11_ConfigErrorsBeforeExtraction ==
    raised = "ValidationError" => ~extracted

RECURSIVE Flatten(_)
\* The concatenation of a sequence of sequences.
Flatten(ss) == IF ss = <<>> THEN <<>> ELSE Head(ss) \o Flatten(Tail(ss))

\* C12: when the fetch loop has run to the end of a statement returning
\* n >= 1 rows with batch size b, it has yielded ceil(n/b) batches, each but
\* the last of b rows, the last of n - b*(ceil(n/b) - 1) rows, whose
\* concatenation is the rows in the order the source returned them.
C12_BatchesPartitionTheStream ==
    (ret.end = "exhausted" /\ Len(arg.rows) >= 1) =>
        LET n == Len(arg.rows)
            b == BatchSizeOf(arg.spec)
            k == CeilDiv(n, b)
        IN /\ Len(ret.batches) = k
           /\ \A i \in 1..(k - 1) : Len(ret.batches[i]) = b
           /\ Len(ret.batches[k]) = n - b * (k - 1)
           /\ Flatten(ret.batches) = arg.rows

\* C12 witness: seven rows with batch size 3 were yielded as batches of 3,
\* 3 and 1 rows.
C12_Witness ==
    /\ ret.end = "exhausted"
    /\ Len(arg.rows) = 7
    /\ BatchSizeOf(arg.spec) = 3
    /\ ret.batches = << <<1, 2, 3>>, <<4, 5, 6>>, <<7>> >>

\* t holds the text w.
Contains(t, w) ==
    \E i \in 1..(Len(t) - Len(w) + 1) : SubSeq(t, i, i + Len(w) - 1) = w

\* C13: the statement built is the base statement followed by
\* " WHERE (filter)" with only a filter expression, " WHERE (cursor)" with
\* only a cursor expression, " WHERE (filter) AND (cursor)" with both, and
\* nothing with neither: it has a WHERE clause iff one of them exists.
C13_WhereClause ==
    ret.state = "built" =>
        LET f == arg.filter_exp
            c == arg.cursor_exp
            base == "SELECT " \o Join(", ", arg.schema) \o " FROM "
                        \o arg.namespace \o "." \o arg.name
            clause == CASE f # "" /\ c # "" -> " WHERE (" \o f \o ") AND (" \o c \o ")"
                        [] f # "" /\ c = "" -> " WHERE (" \o f \o ")"
                        [] f = "" /\ c # "" -> " WHERE (" \o c \o ")"
                        [] OTHER -> ""
        IN /\ ~ret.raised
           /\ ret.query = base \o clause
           /\ Contains(ret.query, " WHERE ") <=> (f # "" \/ c # "")

\* C13 witness: a statement was built for a table with both a filter
\* expression and a cursor expression.
C13_Witness ==
    /\ ret.state = "built"
    /\ arg.filter_exp = "a a"
    /\ arg.cursor_exp = "\"id\" > 100"
    /\ ret.query = "SELECT id FROM public.orders WHERE (a a) AND (\"id\" > 100)"

\* C14: escaping a column name quotes it iff its lower case is one of the
\* reserved words the table has loaded or it holds a special character,
\* leaves it as it is otherwise, and escaping the escaped name gives the
\* escaped name again.
C14_EscapeIdempotentAndCorrect ==
    /\ ret.state # "name" =>
          LET c == arg.column_name
              quote == Lower(c) \in arg.reserved_keywords \/ HasSpecialCharacter(c)
          IN ret.once = IF quote THEN "\"" \o c \o "\"" ELSE c
    /\ ret.state = "escaped_twice" => ret.twice = ret.once

\* C15: the type mapping gives every catalog row a result and never raises:
\* a type name of the static table gets the table's type and no rewrite;
\* money gets decimal128(21, 4) and a numeric(21,4) cast; interval gets
\* string and a text cast; a type name met by no rule gets string, a text
\* cast and a warning.
C15_TypeMappingTotal ==
    ret.state = "mapped" =>
        LET c == arg.column_name
            t == arg.udt_name
            cast == c \o "::text as " \o c
        IN /\ ~ret.raised
           /\ t \in DOMAIN DtMappings =>
                 ret.pa_data_type = DtMappings[t] /\ ret.column_name = c
           /\ t = "money" =>
                 /\ ret.pa_data_type = "decimal128(21, 4)"
                 /\ ret.column_name = c \o "::numeric(21,4) as " \o c
           /\ t = "interval" =>
                 ret.pa_data_type = "string" /\ ret.column_name = cast
           /\ t \in OtherTypes =>
                 /\ ret.pa_data_type = "string"
                 /\ ret.column_name = cast
                 /\ ret.warning

\* C16: when the stream of an incremental table has been exhausted, the
\* table's cursor value is the target value of the pre-scan, whatever rows
\* were inserted between the pre-scan and the execution of the statement:
\* it is not the greatest value among the rows streamed when the two differ.
C16_CursorIsPreScanTarget ==
    (pc = "table_end" /\ streamEnd = "exhausted" /\ IsIncremental(preRun[cur])) =>
        /\ config[cur] = info.target
        /\ srcMax # info.target.v => config[cur].v # srcMax

\* C16 witness: a row inserted after the pre-scan was streamed (one batch
\* more than the rows the pre-scan counted) and the cursor value is below
\* the greatest value streamed.
C16_Witness ==
    /\ pc = "table_end"
    /\ streamEnd = "exhausted"
    /\ IsIncremental(preRun[cur])
    /\ batchNo = CeilDiv(info.size + 1, BatchSize)
    /\ srcCount = info.size + 1
    /\ config[cur].v < srcMax

IsApplied(e) == e.op \in {"append", "overwrite"} /\ e.res = "ok"

IsBatch(b) == b > 0

\* The batches the append and overwrite calls of the current table have
\* committed, in order.
AppliedBatches ==
    LET ok == SelectSeq(trace, IsApplied) IN [i \in DOMAIN ok |-> ok[i].b]

\* C17: when the execution of the statement or a fetch has failed for an
\* incremental table after j batches were yielded, no exception has left
\* the generator, each of the j batches has had its write call and no other
\* batch has, the batches those calls committed are in the destination
\* table, and the table's cursor value is its pre-run value.
C17_ExtractionFailureContained ==
    (streamEnd \in {"execute_error", "fetch_error"} /\ IsIncremental(preRun[cur])) =>
        /\ pc = "table_end"
        /\ raised = "none"
        /\ Len(WriteCalls) = batchNo
        /\ \A i \in DOMAIN WriteCalls : WriteCalls[i].b = i
        /\ SelectSeq(destContent, IsBatch) = AppliedBatches
        /\ config[cur] = preRun[cur]
        /\ prescanTarget[cur] = NoCursor

\* C17 witness: a fetch failed after two batches of an incremental APPEND
\* table had been appended, with a third row left in the stream.
C17_Witness ==
    /\ pc = "table_end"
    /\ streamEnd = "fetch_error"
    /\ IsIncremental(preRun[cur])
    /\ mode = "APPEND"
    /\ batchNo = 2
    /\ stream = 1
    /\ AppliedBatches = <<1, 2>>

\* The events the step appends to the trace.
NewEvents == SubSeq(trace', Len(trace) + 1, Len(trace'))

\* C18: a batch passed to append or overwrite while the destination table
\* does not exist leads to exactly one create, with the batch's schema, and
\* exactly one attempt to write the batch; when the write succeeds the
\* table exists and holds the batch, when it fails exactly one dump of the
\* batch is made.
C18_CreateThenWriteOnce ==
    [][(pc = "write" /\ pc' = "fetch" /\ ~destExists
            /\ Route(overwrite, upsert) \in {"append", "overwrite"}) =>
        LET ev == NewEvents
            calls == {i \in DOMAIN ev : ev[i].op \in {"append", "overwrite"}}
            creates == {i \in DOMAIN ev : ev[i].op = "create"}
            dumps == {i \in DOMAIN ev : ev[i].op = "dump"}
        IN /\ Cardinality(creates) = 1
           /\ \A i \in creates : ev[i].sch = "batch"
           /\ Cardinality(calls) = 1
           /\ \A i \in calls :
                 /\ ev[i].b = batchNo
                 /\ ev[i].res \in {"ok", "failed"}
                 /\ ev[i].res = "ok" =>
                       /\ destExists'
                       /\ destContent' # <<>>
                       /\ destContent'[Len(destContent')] = batchNo
                       /\ dumps = {}
                 /\ ev[i].res = "failed" =>
                       /\ Cardinality(dumps) = 1
                       /\ \A j \in dumps : ev[j].b = batchNo]_vars

\* C19: when a fetch has failed after N batches of a table were yielded and
\* every write call made for them returned without a failure, the
\* destination table of an APPEND or UPSERT table holds batches 1..N, in
\* order, after the rows it held before, and that of an OVERWRITE table
\* holds batches 1..N and nothing else.
C19_FirstBatchesApplied ==
    (/\ pc = "table_end"
     /\ streamEnd = "fetch_error"
     /\ batchNo >= 1
     /\ \A i \in DOMAIN WriteCalls : WriteCalls[i].res = "ok") =>
        /\ mode \in {"APPEND", "UPSERT"} =>
              SelectSeq(destContent, IsBatch) = [i \in 1..batchNo |-> i]
        /\ mode = "OVERWRITE" => destContent = [i \in 1..batchNo |-> i]

\* C20: when the batches of a table are over, the table's dump artifact
\* holds every batch of the table whose write failed and whose dump was
\* written without an error, two or more such batches included.
C20_EveryFailedBatchDumped ==
    pc = "table_end" =>
        \A i \in DOMAIN trace :
            (trace[i].op \in {"append", "overwrite"} /\ trace[i].res = "failed"
                /\ \A j \in Ops({"dump"}) :
                      trace[j].b = trace[i].b => trace[j].res = "ok") =>
                \E k \in DOMAIN dumpFile : dumpFile[k] = trace[i].b

\* C21: the document the file holds once it has been rewritten has the
\* items of the document loaded, in the same order, with the same values,
\* but for the cursor.value of the incremental tables whose stream was
\* exhausted; connection parameters, tunnel sub-document, the other fields
\* of every table and every item of a table without a cursor are the same.
C21_OnlyCursorValueChanges ==
    ret.state = "rewritten" =>
        LET doc == DocLoads(ret.file) IN
          /\ Len(doc) = Len(arg.document)
          /\ \A n \in DOMAIN doc :
                /\ doc[n].key = arg.document[n].key
                /\ doc[n].val # arg.document[n].val =>
                      \E i \in ret.exhausted :
                          arg.kinds[i] # "full" /\ doc[n].key = CursorValueKey(i)

\* C21 witness: with a tunnel in use, table 1 has no cursor and table 2 is
\* incremental; both streams were exhausted and the rewritten document
\* holds the new cursor value of table 2.
C21_Witness ==
    /\ ret.state = "rewritten"
    /\ arg.use_ssh
    /\ arg.kinds[1] = "full" /\ arg.kinds[2] = "int"
    /\ ret.exhausted = {1, 2}
    /\ ret.host = "127.0.0.1"
    /\ \E n \in DOMAIN ret.file :
          /\ ret.file[n].key = CursorValueKey(2)
          /\ ret.file[n].json = [j |-> "number", v |-> "250"]

\* C22: for an incremental table whose cursor expression is empty, query
\* raises and returns no statement, with or without a filter expression,
\* and get_batches ends without a batch and without an exception.
C22_UnsetCursorRaises ==
    (arg.is_incremental /\ arg.cursor_exp = "") =>
        /\ ret.state = "built" => ret.raised /\ ret.query = ""
        /\ ret.state = "generator" =>
              /\ ret.end # "open"
              /\ ret.yielded = 0
              /\ ~ret.propagated

\* C22 witness: query raised for an incremental table with a filter
\* expression and no cursor expression.
C22_Witness ==
    /\ arg.is_incremental
    /\ arg.cursor_exp = ""
    /\ arg.filter_exp = "a a"
    /\ ret.state = "built"
    /\ ret.raised

\* C23: whenever the batch loop asks for the next batch or the stream has
\* ended, the batch handled last is in the destination table or in the
\* table's dump artifact, whatever the access mode.
C23_NoBatchLost ==
    (BetweenBatches /\ batchNo >= 1) =>
        \/ \E k \in DOMAIN destContent : destContent[k] = batchNo
        \/ \E k \in DOMAIN dumpFile : dumpFile[k] = batchNo

\* C24: when the stream of an OVERWRITE table that yielded a batch or more
\* has been exhausted, the destination table holds none of the rows it held
\* before the run: its content is the batches whose append or overwrite
\* call committed, in order, whatever became of the overwrite of batch 1.
C24_OverwriteLeavesNoOldRow ==
    (pc = "table_end" /\ mode = "OVERWRITE" /\ streamEnd = "exhausted"
        /\ batchNo >= 1) =>
        destContent = AppliedBatches

\* C25: when a run has ended, after the last table or because an exception
\* left the table loop at table cur, PGSource.__exit__ has rewritten the
\* configuration file: it holds the advanced cursor value of every table
\* whose stream was exhausted and the pre-run value of every other table,
\* the table the run was aborted at and the tables after it among them.
C25_ConfigRewrittenAtExit ==
    pc = "done" =>
        /\ exitRaised = "none"
        /\ ValidDocument(file)
        /\ file = JsonDumps(config)
        /\ \A i \in Tables :
              JsonLoads(file)[i] =
                  IF prescanTarget[i] # NoCursor THEN prescanTarget[i] ELSE preRun[i]
        /\ raised # "none" =>
              \A i \in cur..NumTables :
                  prescanTarget[i] = NoCursor /\ JsonLoads(file)[i] = preRun[i]

====
